---- MODULE Spec2Model ----
(***************************************************************************)
(* card-collector-hub: the configuration module (config.py) and the        *)
(* health-check blueprint (app/routes/main.py).                            *)
(*                                                                         *)
(* The process imports config.py (load_dotenv(), then the body of class    *)
(* Config) and app/routes/main.py (the blueprint and its one route), the   *)
(* application is assembled and starts serving, and HTTP requests are then *)
(* handled, possibly interleaved, while other code of the process may      *)
(* change os.environ.                                                      *)
(***************************************************************************)
EXTENDS Integers, Sequences, FiniteSets, TLC

VARIABLES
    osenv,        \* os.environ: a partial map from variable name to string
    dotfile,      \* the parsed .env file: a partial map (empty when no file)
    sys_modules,  \* the modules of this repository imported so far
    Config,       \* the attributes of class Config (empty before the import)
    bp,           \* the URL rules recorded on the blueprint "main"
    url_map,      \* the URL rules of the running application
    serving,      \* TRUE once the application accepts requests
    loads,        \* how many times the body of class Config has run
    reqs          \* the requests: their method, path, stage and response

vars == <<osenv, dotfile, sys_modules, Config, bp, url_map, serving, loads, reqs>>

----------------------------------------------------------------------------
(* Bounds *)

MaxRequests == 2

ReqIds == 1..MaxRequests

----------------------------------------------------------------------------
(* The environment *)

Names == {"SECRET_KEY", "DATABASE_URL"}

\* The values a variable takes in the process environment.
EnvVals ==
    [k \in Names |-> IF k = "SECRET_KEY" THEN {"", "abc123"}
                     ELSE {"", "postgresql://example/test"}]

\* The values a variable takes in the .env file.
FileVals ==
    [k \in Names |-> IF k = "SECRET_KEY" THEN {"", "filekey"}
                     ELSE {"", "postgresql://file/db"}]

\* The partial maps from Names that give each name k a value of vals[k].
PartialMaps(vals) ==
    UNION { { f \in [D -> UNION {vals[k] : k \in D}] : \A k \in D : f[k] \in vals[k] }
            : D \in SUBSET Names }

\* os.environ.get(k): None is <<>>, a value v is <<v>>.
EnvGet(env, k) == IF k \in DOMAIN env THEN <<env[k]>> ELSE <<>>

\* `x or d` written as a default of get(): d only when x is None.
PyOr_none_only(x, d) == IF x = <<>> THEN d ELSE x[1]

\* Python's `x or d` for x a string or None: d when x is None or the empty string.
PyOr(x, d) == IF x = <<>> \/ x[1] = "" THEN d ELSE x[1]

\* load_dotenv(override=True): the file's value wins over the environment's.
load_dotenv_override(env, file) ==
    [k \in DOMAIN env \cup DOMAIN file |-> IF k \in DOMAIN file THEN file[k] ELSE env[k]]

\* load_dotenv() with its default override=False: every name of the file that
\* os.environ does not hold yet is set to the file's value; the others are kept.
load_dotenv(env, file) ==
    [k \in DOMAIN env \cup DOMAIN file |-> IF k \in DOMAIN env THEN env[k] ELSE file[k]]

DefaultSecretKey == "dev-key-please-change"
DefaultDatabaseUri == "postgresql://localhost/card_collector_db"

\* The class body with both settings read from the same variable.
ClassConfig_same_variable(env) ==
    [SECRET_KEY |-> PyOr(EnvGet(env, "DATABASE_URL"), DefaultSecretKey),
     SQLALCHEMY_DATABASE_URI |-> PyOr(EnvGet(env, "DATABASE_URL"), DefaultDatabaseUri),
     SQLALCHEMY_TRACK_MODIFICATIONS |-> FALSE]

\* The body of class Config, run in the environment env.
ClassConfig(env) ==
    [SECRET_KEY |-> PyOr(EnvGet(env, "SECRET_KEY"), DefaultSecretKey),
     SQLALCHEMY_DATABASE_URI |-> PyOr(EnvGet(env, "DATABASE_URL"), DefaultDatabaseUri),
     SQLALCHEMY_TRACK_MODIFICATIONS |-> FALSE]

\* config.py with load_dotenv() called after the class body.
ConfigModule_resolve_first(env, file) ==
    [environ |-> load_dotenv(env, file), Config |-> ClassConfig(env)]

\* The top level of config.py: load_dotenv() first, class Config after it.
\* The result is the environment and the class the import leaves behind.
ConfigModule(env, file) ==
    LET env1 == load_dotenv(env, file)
    IN  [environ |-> env1, Config |-> ClassConfig(env1)]

\* A namespace without attributes.
NoAttrs == [k \in {} |-> ""]

----------------------------------------------------------------------------
(* HTTP *)

Methods == {"GET", "HEAD", "OPTIONS", "POST"}
HealthPath == "/api/health-check"
Paths == {HealthPath, "/api/cards"}

\* A body is a set of <<key, value>> pairs: a JSON object, or {} for no content.
NoResp == [status |-> 0, mimetype |-> "", body |-> {}]

IdleReq == [stage |-> "idle", method |-> "", path |-> "", reached |-> FALSE, resp |-> NoResp]

\* The route declared with methods=["GET", "POST"].
RouteMethods_with_post == {"GET", "HEAD", "OPTIONS", "POST"}

\* Blueprint.route(rule) with no methods argument: the view answers GET; Flask
\* adds OPTIONS (automatic options) and the rule adds HEAD because GET is there.
RouteMethods == {"GET", "HEAD", "OPTIONS"}

HealthRule == [rule |-> HealthPath, endpoint |-> "health_check", methods |-> RouteMethods]

\* jsonify(d): a 200 response of type application/json carrying the object d.
jsonify(d) == [status |-> 200, mimetype |-> "application/json", body |-> d]

\* A view that reports failure.
HealthCheckView_unhealthy ==
    [status |-> 503, mimetype |-> "application/json", body |-> {<<"status", "unhealthy">>}]

\* A view that echoes the configuration.
HealthCheckView_leak ==
    jsonify({<<"status", "healthy">>, <<"secret_key", Config.SECRET_KEY>>})

\* The body of health_check().
HealthCheckView == jsonify({<<"status", "healthy">>})

\* What goes on the wire: the response to a HEAD request carries no body.
Finalize(method, resp) ==
    IF method = "HEAD" THEN [resp EXCEPT !.body = {}] ELSE resp

NotFound == [status |-> 404, mimetype |-> "text/html", body |-> {<<"title", "404 Not Found">>}]
MethodNotAllowed ==
    [status |-> 405, mimetype |-> "text/html", body |-> {<<"title", "405 Method Not Allowed">>}]
AutomaticOptions == [status |-> 200, mimetype |-> "text/html", body |-> {}]

----------------------------------------------------------------------------
(* Startup *)

Init ==
    /\ osenv \in PartialMaps(EnvVals)
    /\ dotfile \in PartialMaps(FileVals)
    /\ sys_modules = {}
    /\ Config = NoAttrs
    /\ bp = {}
    /\ url_map = {}
    /\ serving = FALSE
    /\ loads = 0
    /\ reqs = [i \in ReqIds |-> IdleReq]

\* config.py executed again on a later import (importlib.reload).
ImportConfig_reexecuted ==
    /\ loads < 2
    /\ LET m == ConfigModule(osenv, dotfile)
       IN  /\ osenv' = m.environ
           /\ Config' = m.Config
    /\ loads' = loads + 1
    /\ sys_modules' = sys_modules \cup {"config"}
    /\ UNCHANGED <<dotfile, bp, url_map, serving, reqs>>

\* import config: a module is executed once, on its first import.
ImportConfig ==
    /\ "config" \notin sys_modules
    /\ LET m == ConfigModule(osenv, dotfile)
       IN  /\ osenv' = m.environ
           /\ Config' = m.Config
    /\ loads' = loads + 1
    /\ sys_modules' = sys_modules \cup {"config"}
    /\ UNCHANGED <<dotfile, bp, url_map, serving, reqs>>

\* import app.routes.main: the blueprint is created and the route recorded on it.
ImportRoutes ==
    /\ "app.routes.main" \notin sys_modules
    /\ bp' = {HealthRule}
    /\ sys_modules' = sys_modules \cup {"app.routes.main"}
    /\ UNCHANGED <<osenv, dotfile, Config, url_map, serving, loads, reqs>>

\* The application is assembled from the configuration and the blueprint, and
\* starts accepting requests.
StartServing ==
    /\ ~serving
    /\ {"config", "app.routes.main"} \subseteq sys_modules
    /\ url_map' = bp
    /\ serving' = TRUE
    /\ UNCHANGED <<osenv, dotfile, sys_modules, Config, bp, loads, reqs>>

----------------------------------------------------------------------------
(* Requests *)

\* Routing of a request: no rule for the path is 404, a method the rule does
\* not list is 405, OPTIONS is answered by Flask itself, and the other methods
\* of the rule (GET and HEAD) go to the view. The result is the request record.
Route(map, method, path) ==
    LET r == [IdleReq EXCEPT !.method = method, !.path = path]
        rules == {u \in map : u.rule = path}
    IN  IF rules = {} THEN
            [r EXCEPT !.stage = "done", !.resp = Finalize(method, NotFound)]
        ELSE IF \A u \in rules : method \notin u.methods THEN
            [r EXCEPT !.stage = "done", !.resp = Finalize(method, MethodNotAllowed)]
        ELSE IF method = "OPTIONS" THEN
            [r EXCEPT !.stage = "done", !.resp = AutomaticOptions]
        ELSE
            [r EXCEPT !.stage = "view", !.reached = TRUE]

\* A request arrives and is routed; requests are numbered in their order of
\* arrival. A request routed to the view waits there for its thread to run.
Request(i, method, path) ==
    /\ serving
    /\ reqs[i].stage = "idle"
    /\ \A j \in ReqIds : j < i => reqs[j].stage # "idle"
    /\ reqs' = [reqs EXCEPT ![i] = Route(url_map, method, path)]
    /\ UNCHANGED <<osenv, dotfile, sys_modules, Config, bp, url_map, serving, loads>>

\* A view that resolves the settings again on every call.
health_check_reload(i) ==
    /\ reqs[i].stage = "view"
    /\ reqs' = [reqs EXCEPT ![i].stage = "done",
                            ![i].resp = Finalize(reqs[i].method, HealthCheckView)]
    /\ Config' = ClassConfig(osenv)
    /\ UNCHANGED <<osenv, dotfile, sys_modules, bp, url_map, serving, loads>>

\* A view that remembers whether a request was answered before.
health_check_remembering(i) ==
    /\ reqs[i].stage = "view"
    /\ LET again == \E j \in ReqIds : reqs[j].stage = "done"
           view == IF again THEN jsonify({<<"status", "still healthy">>})
                   ELSE HealthCheckView
       IN  reqs' = [reqs EXCEPT ![i].stage = "done",
                               ![i].resp = Finalize(reqs[i].method, view)]
    /\ UNCHANGED <<osenv, dotfile, sys_modules, Config, bp, url_map, serving, loads>>

\* The view function runs and its response is sent.
health_check(i) ==
    /\ reqs[i].stage = "view"
    /\ reqs' = [reqs EXCEPT ![i].stage = "done",
                            ![i].resp = Finalize(reqs[i].method, HealthCheckView)]
    /\ UNCHANGED <<osenv, dotfile, sys_modules, Config, bp, url_map, serving, loads>>

----------------------------------------------------------------------------
(* Changes of os.environ after startup *)

SetEnv(k, v) ==
    /\ serving
    /\ osenv' = [n \in DOMAIN osenv \cup {k} |-> IF n = k THEN v ELSE osenv[n]]
    /\ osenv' # osenv
    /\ UNCHANGED <<dotfile, sys_modules, Config, bp, url_map, serving, loads, reqs>>

UnsetEnv(k) ==
    /\ serving
    /\ k \in DOMAIN osenv
    /\ osenv' = [n \in DOMAIN osenv \ {k} |-> osenv[n]]
    /\ UNCHANGED <<dotfile, sys_modules, Config, bp, url_map, serving, loads, reqs>>

----------------------------------------------------------------------------

Next ==
    \/ ImportConfig
    \/ ImportRoutes
    \/ StartServing
    \/ \E i \in ReqIds, m \in Methods, p \in Paths : Request(i, m, p)
    \/ \E i \in ReqIds : health_check(i)
    \/ \E k \in Names : \E v \in EnvVals[k] : SetEnv(k, v)
    \/ \E k \in Names : UnsetEnv(k)

Spec == Init /\ [][Next]_vars

----------------------------------------------------------------------------
(* Properties *)

\* The attribute of Config that the variable k sets, and its literal default.
Attr(k) == IF k = "SECRET_KEY" THEN "SECRET_KEY" ELSE "SQLALCHEMY_DATABASE_URI"
Default(k) ==
    IF k = "SECRET_KEY" THEN "dev-key-please-change"
    ELSE "postgresql://localhost/card_collector_db"

\* The step that imports config.py.
ImportStep == "config" \notin sys_modules /\ "config" \in sys_modules'

\* The step in which the view runs for request i.
ViewStep(i) == reqs[i].stage = "view" /\ reqs'[i].stage = "done"

Done(i) == reqs[i].stage = "done"
IsHealthGet(i) == reqs[i].method = "GET" /\ reqs[i].path = "/api/health-check"

\* C1: every GET /api/health-check that has been handled was answered with
\* status 200 and the JSON object {"status": "healthy"}, whatever requests
\* came before it, and a request that reached the view never ends otherwise
\* than with status 200.
C1_HealthCheckAnswer ==
    \A i \in ReqIds :
        /\ (Done(i) /\ IsHealthGet(i)) =>
              /\ reqs[i].reached
              /\ reqs[i].resp.status = 200
              /\ reqs[i].resp.mimetype = "application/json"
              /\ reqs[i].resp.body = {<<"status", "healthy">>}
        /\ (Done(i) /\ reqs[i].reached) => reqs[i].resp.status = 200

\* A GET health check answered after an earlier request of another kind.
C1_Witness ==
    /\ MaxRequests >= 2
    /\ Done(1) /\ ~IsHealthGet(1)
    /\ Done(2) /\ IsHealthGet(2)

\* C2: when config.py is imported, a setting whose variable holds a non-empty
\* value, in the process environment or in the environment as load_dotenv()
\* left it, resolves to exactly that value.
C2_ConfigOverride ==
    [][ImportStep =>
          \A k \in Names :
              /\ (k \in DOMAIN osenv /\ osenv[k] # "") => Config'[Attr(k)] = osenv[k]
              /\ (k \in DOMAIN osenv' /\ osenv'[k] # "") => Config'[Attr(k)] = osenv'[k]]_vars

\* Both variables set in the process environment, and both settings resolved.
C2_Witness ==
    /\ "config" \in sys_modules /\ ~serving
    /\ Config.SECRET_KEY = "abc123"
    /\ Config.SQLALCHEMY_DATABASE_URI = "postgresql://example/test"

\* C3: when config.py is imported, a setting whose variable is unset or empty
\* in the environment the class body reads resolves to its literal default,
\* each setting independently of the other; a resolved setting is never the
\* empty string; and the import can always be carried out.
C3_ConfigDefault ==
    /\ [][ImportStep =>
            \A k \in Names :
                (k \notin DOMAIN osenv' \/ osenv'[k] = "") => Config'[Attr(k)] = Default(k)]_vars
    /\ []("config" \in sys_modules =>
            /\ DOMAIN Config =
                 {"SECRET_KEY", "SQLALCHEMY_DATABASE_URI", "SQLALCHEMY_TRACK_MODIFICATIONS"}
            /\ Config.SECRET_KEY # ""
            /\ Config.SQLALCHEMY_DATABASE_URI # "")
    /\ []("config" \notin sys_modules => ENABLED ImportConfig)

\* One setting fell back from an empty value while the other was overridden.
C3_Witness ==
    /\ "config" \in sys_modules /\ ~serving
    /\ "SECRET_KEY" \in DOMAIN osenv /\ osenv["SECRET_KEY"] = ""
    /\ Config.SECRET_KEY = "dev-key-please-change"
    /\ "DATABASE_URL" \notin DOMAIN dotfile
    /\ Config.SQLALCHEMY_DATABASE_URI = "postgresql://example/test"

\* C4: once config.py is imported, no step changes an attribute of Config:
\* not a change of os.environ, not a request.
C4_ConfigImmutable == [][("config" \in sys_modules) => Config' = Config]_vars

\* A health check was answered after the environment moved away from the
\* value the setting was resolved from.
C4_Witness ==
    /\ \E i \in ReqIds : Done(i) /\ reqs[i].reached
    /\ "SECRET_KEY" \in DOMAIN osenv /\ osenv["SECRET_KEY"] = "abc123"
    /\ Config.SECRET_KEY = "dev-key-please-change"
    /\ "DATABASE_URL" \notin DOMAIN osenv
    /\ Config.SQLALCHEMY_DATABASE_URI = "postgresql://example/test"

\* C5: any two handled GET health checks carry the same response, in whatever
\* order they were handled, and the step in which the view runs changes
\* nothing but the response of its own request.
C5_HealthIdempotent ==
    /\ [](\A i, j \in ReqIds :
            (Done(i) /\ Done(j) /\ IsHealthGet(i) /\ IsHealthGet(j)) =>
                reqs[i].resp = reqs[j].resp)
    /\ [][\A i \in ReqIds :
            ViewStep(i) =>
                /\ UNCHANGED <<osenv, dotfile, sys_modules, Config, bp, url_map, serving, loads>>
                /\ \A j \in ReqIds \ {i} : reqs'[j] = reqs[j]
                /\ reqs'[i] = [reqs[i] EXCEPT !.stage = "done", !.resp = reqs'[i].resp]]_vars

\* Two GET health checks in flight together: the later one is answered while
\* the earlier one still waits in the view.
C5_InFlight ==
    /\ MaxRequests >= 2
    /\ IsHealthGet(1) /\ reqs[1].stage = "view"
    /\ IsHealthGet(2) /\ Done(2)

\* Two answered GET health checks.
C5_Witness ==
    /\ MaxRequests >= 2
    /\ IsHealthGet(1) /\ Done(1)
    /\ IsHealthGet(2) /\ Done(2)

\* C6 as stated: on /api/health-check a request of any method but GET is
\* refused and does not reach the view.
C6_OnlyGetAccepted ==
    \A i \in ReqIds :
        (reqs[i].path = "/api/health-check" /\ reqs[i].stage # "idle"
            /\ reqs[i].method # "GET") =>
                /\ ~reqs[i].reached
                /\ Done(i) => reqs[i].resp.status = 405

\* C6 amended: on /api/health-check, GET and HEAD reach the view and HEAD is
\* answered 200 without a body; OPTIONS is answered 200 without reaching the
\* view; every other method is refused with 405 and does not reach the view.
C6_MethodRestriction ==
    \A i \in ReqIds :
        (reqs[i].path = "/api/health-check" /\ reqs[i].stage # "idle") =>
            /\ reqs[i].reached <=> reqs[i].method \in {"GET", "HEAD"}
            /\ (Done(i) /\ reqs[i].method = "HEAD") =>
                  reqs[i].resp.status = 200 /\ reqs[i].resp.body = {}
            /\ (Done(i) /\ reqs[i].method = "OPTIONS") =>
                  reqs[i].resp.status = 200 /\ reqs[i].resp.body = {}
            /\ (reqs[i].method \notin {"GET", "HEAD", "OPTIONS"}) =>
                  Done(i) /\ reqs[i].resp.status = 405

\* A POST refused and a HEAD answered on the health-check path.
C6_Witness ==
    /\ MaxRequests >= 2
    /\ reqs[1].path = "/api/health-check" /\ reqs[1].method = "POST" /\ Done(1)
    /\ reqs[2].path = "/api/health-check" /\ reqs[2].method = "HEAD" /\ Done(2)

C8_ResponseIgnoresConfig ==
    \A i \in ReqIds :
        (Done(i) /\ reqs[i].path = "/api/health-check") =>
            /\ reqs[i].resp.status = (IF reqs[i].method = "POST" THEN 405 ELSE 200)
            /\ reqs[i].resp.body =
                  (CASE reqs[i].method = "GET" -> {<<"status", "healthy">>}
                     [] reqs[i].method = "POST" -> {<<"title", "405 Method Not Allowed">>}
                     [] OTHER -> {})
            /\ \A kv \in reqs[i].resp.body :
                  kv[2] \notin {Config.SECRET_KEY, Config.SQLALCHEMY_DATABASE_URI}

\* A health check answered in a process whose settings both come from the
\* environment, and so differ from those of a process started without it.
C8_Witness ==
    /\ \E i \in ReqIds : Done(i) /\ IsHealthGet(i)
    /\ Config.SECRET_KEY = "abc123"
    /\ Config.SQLALCHEMY_DATABASE_URI = "postgresql://file/db"

\* C9: when config.py is imported and the file gives a variable a non-empty
\* value that the process environment does not define, the file's value is in
\* os.environ when the class body runs and the setting resolves to it.
C9_DotenvBeforeResolve ==
    [][ImportStep =>
          \A k \in Names :
              (k \in DOMAIN dotfile /\ dotfile[k] # "" /\ k \notin DOMAIN osenv) =>
                  /\ k \in DOMAIN osenv' /\ osenv'[k] = dotfile[k]
                  /\ Config'[Attr(k)] = dotfile[k]]_vars

\* Both settings resolved from the file.
C9_Witness ==
    /\ "config" \in sys_modules /\ ~serving
    /\ Config.SECRET_KEY = "filekey"
    /\ Config.SQLALCHEMY_DATABASE_URI = "postgresql://file/db"

\* C10: when config.py is imported, every variable of the process environment
\* keeps its value whatever the file says, and a variable the process
\* environment sets to the empty string resolves to the literal default.
C10_EnvPrecedence ==
    [][ImportStep =>
          \A k \in DOMAIN osenv :
              /\ k \in DOMAIN osenv' /\ osenv'[k] = osenv[k]
              /\ osenv[k] = "" => Config'[Attr(k)] = Default(k)]_vars

\* An empty variable of the process environment that the file gives a value.
C10_Witness ==
    /\ "config" \in sys_modules /\ ~serving
    /\ "SECRET_KEY" \in DOMAIN osenv /\ osenv["SECRET_KEY"] = ""
    /\ "SECRET_KEY" \in DOMAIN dotfile /\ dotfile["SECRET_KEY"] = "filekey"
    /\ Config.SECRET_KEY = "dev-key-please-change"

====
